---- MODULE Spec2Model ----
(***************************************************************************)
(* Model of the three client-side views of the Kickbase analysis frontend  *)
(* (app/calculator/page.tsx holds the Calculator, the player table "Home"   *)
(* and the liquidity table "Managers").                                     *)
(*                                                                         *)
(* Text is a sequence of one-character strings, so that toLowerCase, trim, *)
(* includes, localeCompare and parseFloat are computed character by        *)
(* character.  A JavaScript number is a decimal [nan, m, e] standing for   *)
(* m / 10^e (or NaN); Math.pow with a fractional exponent is kept as a     *)
(* symbolic term.                                                          *)
(***************************************************************************)
EXTENDS Integers, Sequences, FiniteSets, Bags, TLC

VARIABLES
    \* ---- Home (player table) ----
    players,                  \* useState<Player[]>([])
    loading,                  \* useState(true)
    searchTerm,               \* useState('')
    positionFilter,           \* useState('all')
    minMarketValue,           \* useState(0)
    sortField,                \* useState<SortField>(null)
    sortDirection,            \* useState<SortDirection>(null)
    filteredAndSortedPlayers, \* the useMemo value of the last render
    homePc,                   \* position of the load effect's promise chain
    homeResponse,             \* the Response the fetch resolved with, until its body is handled
    homeActive,               \* the view is mounted
    clickRun,                 \* history: the header clicks since the column became active
    \* ---- Calculator ----
    totalPoints,              \* useState<string>('')
    fairMarketValue,          \* useState<number | null>(null)
    B,                        \* useState<number>(DEFAULT_B)
    alpha,                    \* useState<number>(DEFAULT_ALPHA)
    calcLoading,              \* useState(true)
    calcPc,                   \* position of the metrics effect's promise chain
    metricsCsv,               \* the rows of the metrics response that is being handled
    calcActive,               \* the view is mounted
    \* ---- Managers (liquidity table) ----
    managers,                 \* useState<ManagerData[]>([])
    mgrLoading,               \* useState(true)
    error,                    \* useState<string | null>(null)
    mgrSortField,             \* useState<keyof ManagerData>('manager_name')
    mgrSortDirection,         \* useState<'asc' | 'desc'>('asc')
    mgrPc,                    \* position of loadManagers
    mgrIdx,                   \* the candidate of possibleFiles the loop is at
    mgrActive,                \* the view is mounted
    fetchLog,                 \* history: the candidates fetched so far, with how each fetch ended
    mgrSource,                \* history: the candidate whose body became the records (0: none)
    mgrClick                  \* history: the last header click

homeVars == <<players, loading, searchTerm, positionFilter, minMarketValue,
              sortField, sortDirection, filteredAndSortedPlayers, homePc, clickRun,
              homeResponse, homeActive>>
calcVars == <<totalPoints, fairMarketValue, B, alpha, calcLoading, calcPc, metricsCsv,
              calcActive>>
mgrVars == <<managers, mgrLoading, error, mgrSortField, mgrSortDirection, mgrPc, mgrIdx,
             mgrActive, fetchLog, mgrSource, mgrClick>>
vars == <<homeVars, calcVars, mgrVars>>

(***************************************************************************)
(* Bounds of the model.                                                    *)
(***************************************************************************)
MaxPlayers == 2        \* rows of the players CSV
MaxSliderSteps == 1    \* slider positions above 0 that are tried (the code has 50)
MaxMetricsRows == 1    \* data rows of the metrics CSV
MaxClickRun == 4       \* cap of the history counter of successive header clicks
MaxManagers == 2       \* rows of the liquidity CSV

(***************************************************************************)
(* Text.                                                                   *)
(***************************************************************************)
Undefined == <<"undefined">>   \* a key the CSV row does not have (no character is 9 long)
Null == "null"

IsAbsent(v) == v = Undefined
\* JavaScript truthiness of an optional string: undefined and '' are falsy.
Truthy(v) == ~IsAbsent(v) /\ Len(v) > 0
\* v || d
OrElse(v, d) == IF Truthy(v) THEN v ELSE d

DigitChars == <<"0", "1", "2", "3", "4", "5", "6", "7", "8", "9">>
IsDigit(c) == \E i \in 1..10 : DigitChars[i] = c
DigitVal(c) == (CHOOSE i \in 1..10 : DigitChars[i] = c) - 1
IsSpace(c) == c = " "

\* String.prototype.toLowerCase on the alphabet of the model
LowerChar(c) ==
    CASE c = "A" -> "a"
      [] c = "B" -> "b"
      [] OTHER -> c
ToLowerCase(s) == [i \in 1..Len(s) |-> LowerChar(s[i])]

\* String.prototype.includes
Includes(s, t) ==
    \E i \in 0..(Len(s) - Len(t)) : SubSeq(s, i + 1, i + Len(t)) = t

RECURSIVE TrimStart(_)
TrimStart(s) ==
    IF Len(s) > 0 /\ IsSpace(s[1]) THEN TrimStart(Tail(s)) ELSE s
RECURSIVE TrimEnd(_)
TrimEnd(s) ==
    IF Len(s) > 0 /\ IsSpace(s[Len(s)]) THEN TrimEnd(SubSeq(s, 1, Len(s) - 1)) ELSE s
\* String.prototype.trim
Trim(s) == TrimEnd(TrimStart(s))

\* Collation of String.prototype.localeCompare (root collation): the primary
\* weight orders white space < punctuation < digits < letters and ignores
\* case; a tie on all primary weights is broken by case, lower before upper.
PrimaryWeight(c) ==
    CASE c = " " -> 1
      [] c = "-" -> 2
      [] c = "." -> 3
      [] IsDigit(c) -> 10 + DigitVal(c)
      [] c \in {"a", "A"} -> 30
      [] c \in {"b", "B"} -> 31
      [] OTHER -> 40
CaseWeight(c) == IF c \in {"A", "B"} THEN 1 ELSE 0

RECURSIVE LexCompare(_, _)
\* lexicographic comparison of two sequences of weights: -1, 0 or 1
LexCompare(s, t) ==
    IF Len(s) = 0 /\ Len(t) = 0 THEN 0
    ELSE IF Len(s) = 0 THEN -1
    ELSE IF Len(t) = 0 THEN 1
    ELSE IF s[1] < t[1] THEN -1
    ELSE IF s[1] > t[1] THEN 1
    ELSE LexCompare(Tail(s), Tail(t))

LocaleCompare(s, t) ==
    LET p == LexCompare([i \in 1..Len(s) |-> PrimaryWeight(s[i])],
                        [i \in 1..Len(t) |-> PrimaryWeight(t[i])])
    IN  IF p # 0 THEN p
        ELSE LexCompare([i \in 1..Len(s) |-> CaseWeight(s[i])],
                        [i \in 1..Len(t) |-> CaseWeight(t[i])])

(***************************************************************************)
(* Numbers.                                                                *)
(***************************************************************************)
NaN == [nan |-> TRUE, m |-> 0, e |-> 0]
IsNaN(x) == x.nan

RECURSIVE Pow10(_)
Pow10(n) == IF n = 0 THEN 1 ELSE 10 * Pow10(n - 1)

RECURSIVE Norm(_)
\* one value per number: no trailing zero in the fraction
Norm(x) ==
    IF x.e > 0 /\ x.m % 10 = 0 THEN Norm([nan |-> FALSE, m |-> x.m \div 10, e |-> x.e - 1])
    ELSE x

Num(i) == [nan |-> FALSE, m |-> i, e |-> 0]
Dec(mant, ex) == Norm([nan |-> FALSE, m |-> mant, e |-> ex])

MaxOf(a, b) == IF a >= b THEN a ELSE b
Scaled(x, ex) == x.m * Pow10(ex - x.e)

\* x < y, x <= y, x >= y of JavaScript: false as soon as one side is NaN
NumLt(x, y) == ~x.nan /\ ~y.nan /\ Scaled(x, MaxOf(x.e, y.e)) < Scaled(y, MaxOf(x.e, y.e))
NumLe(x, y) == ~x.nan /\ ~y.nan /\ Scaled(x, MaxOf(x.e, y.e)) <= Scaled(y, MaxOf(x.e, y.e))
NumGe(x, y) == NumLe(y, x)

\* x - y
NumSub(x, y) ==
    IF x.nan \/ y.nan THEN NaN
    ELSE Dec(Scaled(x, MaxOf(x.e, y.e)) - Scaled(y, MaxOf(x.e, y.e)), MaxOf(x.e, y.e))

\* x + y
NumAdd(x, y) ==
    IF x.nan \/ y.nan THEN NaN
    ELSE Dec(Scaled(x, MaxOf(x.e, y.e)) + Scaled(y, MaxOf(x.e, y.e)), MaxOf(x.e, y.e))

\* Math.abs
NumAbs(x) == IF x.nan THEN NaN ELSE [nan |-> FALSE, m |-> IF x.m < 0 THEN -x.m ELSE x.m, e |-> x.e]

Sign(x) == IF x.nan THEN 0 ELSE IF x.m < 0 THEN -1 ELSE IF x.m > 0 THEN 1 ELSE 0

RECURSIVE DigitPrefix(_)
DigitPrefix(s) ==
    IF Len(s) > 0 /\ IsDigit(s[1]) THEN <<s[1]>> \o DigitPrefix(Tail(s)) ELSE <<>>

RECURSIVE DigitsValue(_)
DigitsValue(s) ==
    IF Len(s) = 0 THEN 0 ELSE 10 * DigitsValue(SubSeq(s, 1, Len(s) - 1)) + DigitVal(s[Len(s)])

\* parseFloat: leading white space is skipped, then the longest prefix
\* [+-] digits [. digits] is read; no digit at all gives NaN.  (The
\* alphabet of the model has no 'e', 'E' or 'I', so exponents and
\* Infinity do not arise.)
NumNeg(x) == IF x.nan THEN NaN ELSE [nan |-> FALSE, m |-> -x.m, e |-> x.e]

\* the digits after a decimal point at the head of rest
FractionDigits(rest) ==
    IF Len(rest) > 0 /\ rest[1] = "." THEN DigitPrefix(Tail(rest)) ELSE <<>>

\* the number with integer digits ip and fraction digits fp
FromDigits(ip, fp) ==
    IF Len(ip) = 0 /\ Len(fp) = 0 THEN NaN ELSE Dec(DigitsValue(ip \o fp), Len(fp))

ParseAfterInt(ip, u) == FromDigits(ip, FractionDigits(SubSeq(u, Len(ip) + 1, Len(u))))

ParseUnsigned(u) == ParseAfterInt(DigitPrefix(u), u)

ParseSigned(t) ==
    IF Len(t) > 0 /\ t[1] = "-" THEN NumNeg(ParseUnsigned(Tail(t)))
    ELSE IF Len(t) > 0 /\ t[1] = "+" THEN ParseUnsigned(Tail(t))
    ELSE ParseUnsigned(t)

ParseFloat(s) == ParseSigned(TrimStart(s))

(***************************************************************************)
(* Home: the player table.                                                 *)
(***************************************************************************)
PosAll == <<"a", "l", "l">>
PositionButtons == {PosAll, <<"1">>, <<"2">>, <<"3">>, <<"4">>}
SortColumns == {"tn", "tp"}      \* the column headers that are clicked
SearchInputs == {<<>>, <<"B">>, <<"1">>}
SLIDER_STEP == 1000000

\* Rows the players CSV may hold.  Every cell is text; a short row lacks its
\* trailing keys.
SamplePlayers ==
    { [fn |-> <<"a", "B">>, ln |-> <<"a">>, tn |-> <<"a", "b">>, pos |-> <<"1">>,
       mv |-> <<"2", "0", "0", "0", "0", "0", "0">>, tp |-> <<"9">>],
      [fn |-> <<"a">>, ln |-> Undefined, tn |-> <<"A", "a">>, pos |-> <<" ", "1", " ">>,
       mv |-> <<"a", "b", "a">>, tp |-> <<"1", "0">>],
      [fn |-> <<"A">>, ln |-> <<"b">>, tn |-> <<"B">>, pos |-> <<"2">>,
       mv |-> Undefined, tp |-> <<".", "a">>],
      [fn |-> <<>>, ln |-> <<"a", "1">>, tn |-> <<"a">>, pos |-> <<>>,
       mv |-> <<"-", "5">>, tp |-> <<".", "5">>],
      [fn |-> <<"b", "A">>, ln |-> <<"A">>, tn |-> <<"a", "b">>, pos |-> <<"4">>,
       mv |-> <<"1", "0", "0", "0", "0", "0", "0">>, tp |-> <<"0">>] }

RECURSIVE SeqsUpTo(_, _)
\* the sequences over S of length at most n
SeqsUpTo(S, n) ==
    IF n = 0 THEN {<<>>}
    ELSE LET shorter == SeqsUpTo(S, n - 1)
         IN  shorter \cup {Append(q, x) : q \in {r \in shorter : Len(r) = n - 1}, x \in S}

\* the sample rows by their tp cell
RowWithTp(t) == CHOOSE r \in SamplePlayers : r.tp = t

\* Three-row files: numeric columns, and a column on which the comparator
\* is not consistent (0 < .5 as numbers, ".5" < ".a" < "0" as text).
LongFiles ==
    { <<RowWithTp(<<"1", "0">>), RowWithTp(<<"9">>), RowWithTp(<<"0">>)>>,
      <<RowWithTp(<<"9">>), RowWithTp(<<"1", "0">>), RowWithTp(<<"9">>)>>,
      <<RowWithTp(<<"0">>), RowWithTp(<<".", "5">>), RowWithTp(<<".", "a">>)>>,
      <<RowWithTp(<<".", "a">>), RowWithTp(<<"0">>), RowWithTp(<<".", "5">>)>> }

PlayerFiles == SeqsUpTo(SamplePlayers, MaxPlayers) \cup LongFiles

\* player.f?.toLowerCase().includes(search)
FieldIncludes(v, search) == ~IsAbsent(v) /\ Includes(ToLowerCase(v), search)

\* a variant of MatchesSearch that forgets to lower-case the term
MatchesSearchRawTerm(player, term) ==
    IF Len(term) > 0
    THEN \/ FieldIncludes(player.fn, term)
         \/ FieldIncludes(player.ln, term)
         \/ FieldIncludes(player.tn, term)
         \/ FieldIncludes(player.pos, term)
    ELSE TRUE

\* lines 358-367: the search predicate
MatchesSearch(player, term) ==
    IF Len(term) > 0
    THEN LET search == ToLowerCase(term)
         IN  \/ FieldIncludes(player.fn, search)
             \/ FieldIncludes(player.ln, search)
             \/ FieldIncludes(player.tn, search)
             \/ FieldIncludes(player.pos, search)
    ELSE TRUE

\* a variant of PositionMatches that compares the untrimmed cell
PositionMatchesNoTrim(player, posF) ==
    IF posF # PosAll THEN OrElse(player.pos, <<>>) = posF ELSE TRUE

\* lines 369-377: the position predicate
PositionMatches(player, posF) ==
    IF posF # PosAll
    THEN LET playerPos == Trim(OrElse(player.pos, <<>>))
             filterPos == Trim(posF)
         IN  playerPos = filterPos
    ELSE TRUE

\* lines 379-383: the minimum market value predicate
MarketValueOk(player, minMV) ==
    LET marketValue == ParseFloat(OrElse(player.mv, <<"0">>))
    IN  ~NumLt(marketValue, Num(minMV))

\* the callback of players.filter, lines 356-386
PassesFilter(player, term, posF, minMV) ==
    IF ~MatchesSearch(player, term) THEN FALSE
    ELSE IF ~PositionMatches(player, posF) THEN FALSE
    ELSE IF ~MarketValueOk(player, minMV) THEN FALSE
    ELSE TRUE

\* lines 397-403, on the two cells and the numbers parsed from them; only the
\* sign of the result matters to Array.prototype.sort
CompareCells(aVal, bVal, aNum, bNum, dir) ==
    IF ~IsNaN(aNum) /\ ~IsNaN(bNum)
    THEN IF dir = "asc" THEN Sign(NumSub(aNum, bNum)) ELSE Sign(NumSub(bNum, aNum))
    ELSE IF dir = "asc" THEN LocaleCompare(aVal, bVal) ELSE -LocaleCompare(aVal, bVal)

\* a variant of CompareValues that always compares the cells as text
CompareValuesAsText(aVal, bVal, dir) ==
    IF dir = "asc" THEN LocaleCompare(aVal, bVal) ELSE -LocaleCompare(aVal, bVal)

\* lines 394-395
CompareValues(aVal, bVal, dir) ==
    CompareCells(aVal, bVal, ParseFloat(aVal), ParseFloat(bVal), dir)

\* the comparator of lines 389-404
CompareHome(a, b, field, dir) ==
    CompareValues(OrElse(a[field], <<>>), OrElse(b[field], <<>>), dir)

\* The comparator and the filter callback are pure: their values on the rows
\* and inputs of the model are computed once.
CompareMemo ==
    [a \in SamplePlayers, b \in SamplePlayers, field \in SortColumns, dir \in {"asc", "desc"} |->
        CompareHome(a, b, field, dir)]
PassesMemo ==
    [player \in SamplePlayers, term \in SearchInputs, posF \in PositionButtons,
     k \in 0..MaxSliderSteps |-> PassesFilter(player, term, posF, k * SLIDER_STEP)]

\* Array.prototype.sort requires a consistent comparator (ECMA-262
\* 23.1.3.30): antisymmetric, and transitive on <= .
ConsistentRel(R, C) ==
    /\ \A x, y \in R : C[x, y] = -C[y, x]
    /\ \A x, y, z \in R : (C[x, y] <= 0 /\ C[y, z] <= 0) => C[x, z] <= 0
    /\ \A x, y, z \in R : (C[x, y] = 0 /\ C[y, z] = 0) => C[x, z] = 0

ConsistentOn(s, field, dir) ==
    ConsistentRel({s[i] : i \in 1..Len(s)},
                  [x \in SamplePlayers, y \in SamplePlayers |-> CompareMemo[x, y, field, dir]])

\* x goes behind the last element that is not greater than it
InsertSorted(acc, x, field, dir) ==
    LET ok == {i \in 0..Len(acc) :
                  \A j \in (i + 1)..Len(acc) : CompareMemo[acc[j], x, field, dir] > 0}
        at == CHOOSE i \in ok : \A k \in ok : i <= k
    IN  SubSeq(acc, 1, at) \o <<x>> \o SubSeq(acc, at + 1, Len(acc))

RECURSIVE StableSort(_, _, _)
StableSort(s, field, dir) ==
    IF Len(s) = 0 THEN <<>>
    ELSE InsertSorted(StableSort(SubSeq(s, 1, Len(s) - 1), field, dir), s[Len(s)], field, dir)

Rearrangements(s) ==
    LET n == Len(s)
        P == {f \in [1..n -> 1..n] : \A i, j \in 1..n : f[i] = f[j] => i = j}
    IN  {[i \in 1..n |-> s[f[i]]] : f \in P}

\* a variant of SortOutcomes that keeps one row of each run of rows comparing equal
SortOutcomesDropTies(s, field, dir) ==
    LET sorted == StableSort(s, field, dir)
        keep == {i \in 1..Len(sorted) :
                    i = 1 \/ CompareMemo[sorted[i - 1], sorted[i], field, dir] # 0}
    IN  {[k \in 1..Cardinality(keep) |->
             sorted[CHOOSE i \in keep : Cardinality({j \in keep : j <= i}) = k]]}

\* [...filtered].sort(comparator): the stable sorted order when the comparator
\* is consistent, and an implementation-defined order of the same elements
\* when it is not.
SortOutcomes(s, field, dir) ==
    IF ConsistentOn(s, field, dir) THEN {StableSort(s, field, dir)} ELSE Rearrangements(s)

FilterPlayers(ps, term, posF, minMV) ==
    SelectSeq(ps, LAMBDA player : PassesMemo[player, term, posF, minMV \div SLIDER_STEP])

\* the useMemo of lines 355-408: the values the memo may take
FilteredAndSorted(ps, term, posF, minMV, sf, sd) ==
    LET filtered == FilterPlayers(ps, term, posF, minMV)
    IN  IF sf # Null /\ sd # Null THEN SortOutcomes(filtered, sf, sd) ELSE {filtered}

\* every state update is followed by a render, which recomputes the memo
Render ==
    filteredAndSortedPlayers' \in
        FilteredAndSorted(players', searchTerm', positionFilter', minMarketValue',
                          sortField', sortDirection')

NoRun == [field |-> Null, n |-> 0, fromUnsorted |-> FALSE]

HomeInit ==
    /\ players = <<>>
    /\ loading = TRUE
    /\ searchTerm = <<>>
    /\ positionFilter = PosAll
    /\ minMarketValue = 0
    /\ sortField = Null
    /\ sortDirection = Null
    /\ filteredAndSortedPlayers = <<>>
    /\ homePc = "fetch"
    /\ clickRun = NoRun
    /\ homeResponse = "none"
    /\ homeActive = TRUE

\* a state update of a mounted view is followed by a render, which recomputes
\* the memo; an unmounted view renders nothing
RenderIfMounted ==
    IF homeActive THEN Render ELSE UNCHANGED filteredAndSortedPlayers

\* fetch('/players_with_fmv.csv') resolves with a success status (ok) or with
\* another one: line 333 asks for the text without looking at response.ok
HomeFetchResolve(ok) ==
    /\ homePc = "fetch"
    /\ homePc' = "text"
    /\ homeResponse' = IF ok THEN "ok" ELSE "notok"
    /\ UNCHANGED <<players, loading, searchTerm, positionFilter, minMarketValue,
                   sortField, sortDirection, filteredAndSortedPlayers, clickRun,
                   homeActive>>
    /\ UNCHANGED <<calcVars, mgrVars>>

\* fetch rejects: the catch of lines 348-351
HomeFetchReject ==
    /\ homePc = "fetch"
    /\ homePc' = "caught"
    /\ loading' = FALSE
    /\ UNCHANGED <<players, searchTerm, positionFilter, minMarketValue,
                   sortField, sortDirection, clickRun, homeResponse, homeActive>>
    /\ RenderIfMounted
    /\ UNCHANGED <<calcVars, mgrVars>>

\* response.text() rejects or Papa.parse throws: the same catch
HomeTextReject ==
    /\ homePc = "text"
    /\ homePc' = "caught"
    /\ homeResponse' = "none"
    /\ loading' = FALSE
    /\ UNCHANGED <<players, searchTerm, positionFilter, minMarketValue,
                   sortField, sortDirection, clickRun, homeActive>>
    /\ RenderIfMounted
    /\ UNCHANGED <<calcVars, mgrVars>>

\* Papa.parse calls complete with the rows: lines 338-341
HomeParseComplete(data) ==
    /\ homePc = "text"
    /\ homePc' = "complete"
    /\ homeResponse' = "none"
    /\ players' = data
    /\ loading' = FALSE
    /\ UNCHANGED <<searchTerm, positionFilter, minMarketValue,
                   sortField, sortDirection, clickRun, homeActive>>
    /\ RenderIfMounted
    /\ UNCHANGED <<calcVars, mgrVars>>

\* Papa.parse calls error: lines 342-345
HomeParseError ==
    /\ homePc = "text"
    /\ homePc' = "error"
    /\ homeResponse' = "none"
    /\ loading' = FALSE
    /\ UNCHANGED <<players, searchTerm, positionFilter, minMarketValue,
                   sortField, sortDirection, clickRun, homeActive>>
    /\ RenderIfMounted
    /\ UNCHANGED <<calcVars, mgrVars>>

\* a variant of SetSearchTerm that brings the loading screen back
SetSearchTermReloading(value) ==
    /\ homeActive /\ ~loading
    /\ searchTerm' = value
    /\ loading' = TRUE
    /\ UNCHANGED <<players, positionFilter, minMarketValue,
                   sortField, sortDirection, homePc, clickRun, homeResponse, homeActive>>
    /\ Render
    /\ UNCHANGED <<calcVars, mgrVars>>

\* the search box, line 496 (the controls exist once the loading screen is gone)
SetSearchTerm(value) ==
    /\ homeActive /\ ~loading
    /\ searchTerm' = value
    /\ UNCHANGED <<players, loading, positionFilter, minMarketValue,
                   sortField, sortDirection, homePc, clickRun, homeResponse, homeActive>>
    /\ Render
    /\ UNCHANGED <<calcVars, mgrVars>>

\* the position buttons, lines 535-590
SetPositionFilter(value) ==
    /\ homeActive /\ ~loading
    /\ positionFilter' = value
    /\ UNCHANGED <<players, loading, searchTerm, minMarketValue,
                   sortField, sortDirection, homePc, clickRun, homeResponse, homeActive>>
    /\ Render
    /\ UNCHANGED <<calcVars, mgrVars>>

\* the slider, lines 508-515: min 0, max 50000000, step 1000000
SetMinMarketValue(value) ==
    /\ homeActive /\ ~loading
    /\ minMarketValue' = value
    /\ UNCHANGED <<players, loading, searchTerm, positionFilter,
                   sortField, sortDirection, homePc, clickRun, homeResponse, homeActive>>
    /\ Render
    /\ UNCHANGED <<calcVars, mgrVars>>

\* a variant of NextSort with two states only (descending goes back to ascending)
NextSortTwoState(sf, sd, field) ==
    IF sf = field
    THEN [sortField |-> sf, sortDirection |-> IF sd = "asc" THEN "desc" ELSE "asc"]
    ELSE [sortField |-> field, sortDirection |-> "asc"]

\* a variant of NextSort in which another column inherits the direction
NextSortKeepDirection(sf, sd, field) ==
    IF sf = field
    THEN IF sd = "asc" THEN [sortField |-> sf, sortDirection |-> "desc"]
         ELSE IF sd = "desc" THEN [sortField |-> Null, sortDirection |-> Null]
         ELSE [sortField |-> sf, sortDirection |-> "asc"]
    ELSE [sortField |-> field, sortDirection |-> IF sd = Null THEN "asc" ELSE sd]

\* a variant of NextSort whose third click clears the direction and keeps
\* the column (setSortField(null) left out)
NextSortKeepColumn(sf, sd, field) ==
    IF sf = field
    THEN IF sd = "asc" THEN [sortField |-> sf, sortDirection |-> "desc"]
         ELSE IF sd = "desc" THEN [sortField |-> sf, sortDirection |-> Null]
         ELSE [sortField |-> sf, sortDirection |-> "asc"]
    ELSE [sortField |-> field, sortDirection |-> "asc"]

\* lines 411-423: the sort state a click on the header of field leaves
NextSort(sf, sd, field) ==
    IF sf = field
    THEN IF sd = "asc" THEN [sortField |-> sf, sortDirection |-> "desc"]
         ELSE IF sd = "desc" THEN [sortField |-> Null, sortDirection |-> Null]
         ELSE [sortField |-> sf, sortDirection |-> "asc"]
    ELSE [sortField |-> field, sortDirection |-> "asc"]

\* lines 410-424
HandleSort(field) ==
    /\ homeActive /\ ~loading
    /\ sortField' = NextSort(sortField, sortDirection, field).sortField
    /\ sortDirection' = NextSort(sortField, sortDirection, field).sortDirection
    /\ clickRun' = IF sortField = field
                   THEN [clickRun EXCEPT !.n = IF @ < MaxClickRun THEN @ + 1 ELSE @]
                   ELSE [field |-> field, n |-> 1, fromUnsorted |-> sortField = Null]
    /\ UNCHANGED <<players, loading, searchTerm, positionFilter, minMarketValue, homePc,
                   homeResponse, homeActive>>
    /\ Render
    /\ UNCHANGED <<calcVars, mgrVars>>

\* lines 474-480 and 650-654: what the player table renders
HomeView ==
    IF loading THEN "loading"
    ELSE IF Len(filteredAndSortedPlayers) = 0 THEN "empty"
    ELSE "table"

\* the view is unmounted (navigation to another route); the effect of lines
\* 331-352 returns no cleanup function, so whatever is pending stays pending
HomeTeardown ==
    /\ homeActive
    /\ homeActive' = FALSE
    /\ UNCHANGED <<players, loading, searchTerm, positionFilter, minMarketValue,
                   sortField, sortDirection, filteredAndSortedPlayers, homePc, clickRun,
                   homeResponse>>
    /\ UNCHANGED <<calcVars, mgrVars>>

(***************************************************************************)
(* Calculator.                                                             *)
(***************************************************************************)
A == Num(3000000)          \* line 9
TP0 == Num(200)            \* line 10
DEFAULT_B == Num(558)      \* line 12
DEFAULT_ALPHA == Dec(1445, 3)   \* line 13: 1.445

Zero == Num(0)
\* The values fairMarketValue holds: null, a plain number, or the term
\* base + coef * Math.pow(arg, exp), kept symbolic.
NullValue == [kind |-> "null", base |-> Zero, coef |-> Zero, arg |-> Zero, exp |-> Zero]
Plain(x) == [kind |-> "number", base |-> x, coef |-> Zero, arg |-> Zero, exp |-> Zero]
PowTerm(x, c, d, ex) == [kind |-> "base+coef*pow(arg,exp)", base |-> x, coef |-> c, arg |-> d, exp |-> ex]

\* a variant of CalculateFMV whose baseline test is tp < TP0
CalculateFMVStrict(points, b, al) ==
    LET tp == ParseFloat(points)
    IN  IF IsNaN(tp) \/ NumLt(tp, TP0)
        THEN Plain(A)
        ELSE PowTerm(A, b, NumSub(tp, TP0), al)

\* lines 63-71
CalculateFMV(points, b, al) ==
    LET tp == ParseFloat(points)
    IN  IF IsNaN(tp) \/ NumLe(tp, TP0)
        THEN Plain(A)
        ELSE PowTerm(A, b, NumSub(tp, TP0), al)

CHART_MAX == 4000    \* line 99: tp <= 4000
CHART_STEP == 50     \* line 99: tp += 50

\* a variant of ChartPoint whose baseline test is tp < TP0
ChartPointStrict(tp, b, al) ==
    [tp |-> tp,
     fmv |-> IF NumLt(tp, TP0) THEN Plain(A) ELSE PowTerm(A, b, NumSub(tp, TP0), al)]

\* lines 100-102: the point pushed for tp
ChartPoint(tp, b, al) ==
    [tp |-> tp,
     fmv |-> IF NumLe(tp, TP0) THEN Plain(A) ELSE PowTerm(A, b, NumSub(tp, TP0), al)]

RECURSIVE ChartLoop(_, _, _)
\* line 99: for (let tp = ...; tp <= 4000; tp += 50)
ChartLoop(tp, b, al) ==
    IF NumLe(tp, Num(CHART_MAX))
    THEN <<ChartPoint(tp, b, al)>> \o ChartLoop(NumAdd(tp, Num(CHART_STEP)), b, al)
    ELSE <<>>

\* lines 96-105: the useMemo value for the coefficients b and al
ChartData(b, al) == ChartLoop(TP0, b, al)

\* the texts handlePointsChange is called with
PointsInputs ==
    { <<>>, <<"0">>, <<"2", "0", "0">>, <<"2", "0", "1">>, <<"2", "0", "0", ".", "5">>,
      <<"1", "9", "9", ".", "9">>, <<"7", "0", "0">>, <<"a", "b">>, <<"-", "5">>,
      <<" ", "3", "0", "0">>, <<"2", "0", "0", "a">> }

\* cells of the metrics CSV (Papa.parse without dynamicTyping yields text)
MetricsBCells == {Undefined, <<>>, <<"a", "b">>, <<"6", "0", "0">>, <<"0">>}
MetricsAlphaCells == {Undefined, <<>>, <<"a">>, <<"1", ".", "5">>}
MetricsRows == [B : MetricsBCells, alpha : MetricsAlphaCells]
MetricsFiles == SeqsUpTo(MetricsRows, MaxMetricsRows)

CalcInit ==
    /\ totalPoints = <<>>
    /\ fairMarketValue = NullValue
    /\ B = DEFAULT_B
    /\ alpha = DEFAULT_ALPHA
    /\ calcLoading = TRUE
    /\ calcPc = "fetch"
    /\ metricsCsv = <<>>
    /\ calcActive = TRUE

\* a variant of CalcFetchOk that takes the loading screen down as soon as the
\* response arrives, before the metrics row is parsed
CalcFetchOkReady(data) ==
    /\ calcPc = "fetch"
    /\ calcPc' = "text"
    /\ metricsCsv' = data
    /\ calcLoading' = FALSE
    /\ UNCHANGED <<totalPoints, fairMarketValue, B, alpha, calcActive>>
    /\ UNCHANGED <<homeVars, mgrVars>>

\* fetch resolves with response.ok and a body holding the rows data: lines 34-36
CalcFetchOk(data) ==
    /\ calcPc = "fetch"
    /\ calcPc' = "text"
    /\ metricsCsv' = data
    /\ UNCHANGED <<totalPoints, fairMarketValue, B, alpha, calcLoading, calcActive>>
    /\ UNCHANGED <<homeVars, mgrVars>>

\* fetch resolves with a non-success status: line 37 throws, lines 57-60 catch
CalcFetchNotOk ==
    /\ calcPc = "fetch"
    /\ calcPc' = "notfound"
    /\ calcLoading' = FALSE
    /\ UNCHANGED <<totalPoints, fairMarketValue, B, alpha, metricsCsv, calcActive>>
    /\ UNCHANGED <<homeVars, mgrVars>>

\* fetch rejects (network failure): lines 57-60
CalcFetchReject ==
    /\ calcPc = "fetch"
    /\ calcPc' = "rejected"
    /\ calcLoading' = FALSE
    /\ UNCHANGED <<totalPoints, fairMarketValue, B, alpha, metricsCsv, calcActive>>
    /\ UNCHANGED <<homeVars, mgrVars>>

\* response.text() rejects or Papa.parse throws: lines 57-60
CalcTextReject ==
    /\ calcPc = "text"
    /\ calcPc' = "rejected"
    /\ calcLoading' = FALSE
    /\ UNCHANGED <<totalPoints, fairMarketValue, B, alpha, metricsCsv, calcActive>>
    /\ UNCHANGED <<homeVars, mgrVars>>

\* lines 47-48: the value B (or alpha) has after the complete callback
LoadedCoefficient(cell, current) ==
    IF Truthy(cell) THEN ParseFloat(cell) ELSE current

\* Papa.parse calls complete: lines 43-51
CalcParseComplete ==
    /\ calcPc = "text"
    /\ calcPc' = "complete"
    /\ IF Len(metricsCsv) > 0
       THEN /\ B' = LoadedCoefficient(metricsCsv[1].B, B)
            /\ alpha' = LoadedCoefficient(metricsCsv[1].alpha, alpha)
       ELSE UNCHANGED <<B, alpha>>
    /\ calcLoading' = FALSE
    /\ UNCHANGED <<totalPoints, fairMarketValue, metricsCsv, calcActive>>
    /\ UNCHANGED <<homeVars, mgrVars>>

\* a variant of CalcParseError that leaves the loading screen up
CalcParseErrorStaysLoading ==
    /\ calcPc = "text"
    /\ calcPc' = "error"
    /\ UNCHANGED <<totalPoints, fairMarketValue, B, alpha, calcLoading, metricsCsv, calcActive>>
    /\ UNCHANGED <<homeVars, mgrVars>>

\* Papa.parse calls error: lines 52-54
CalcParseError ==
    /\ calcPc = "text"
    /\ calcPc' = "error"
    /\ calcLoading' = FALSE
    /\ UNCHANGED <<totalPoints, fairMarketValue, B, alpha, metricsCsv, calcActive>>
    /\ UNCHANGED <<homeVars, mgrVars>>

\* lines 73-83 (the input exists once the loading screen of lines 118-124 is gone)
HandlePointsChange(value) ==
    /\ calcActive /\ ~calcLoading
    /\ totalPoints' = value
    /\ fairMarketValue' = IF value = <<>> THEN NullValue ELSE CalculateFMV(value, B, alpha)
    /\ UNCHANGED <<B, alpha, calcLoading, calcPc, metricsCsv, calcActive>>
    /\ UNCHANGED <<homeVars, mgrVars>>

\* the view is unmounted; the effect of lines 30-61 returns no cleanup function
CalcTeardown ==
    /\ calcActive
    /\ calcActive' = FALSE
    /\ UNCHANGED <<totalPoints, fairMarketValue, B, alpha, calcLoading, calcPc, metricsCsv>>
    /\ UNCHANGED <<homeVars, mgrVars>>

\* lines 118-124: what the Calculator renders
CalcView == IF calcLoading THEN "loading" ELSE "ready"

(***************************************************************************)
(* Formatting of monetary values.                                          *)
(***************************************************************************)
RECURSIVE NatToText(_)
\* the decimal digits of a natural number
NatToText(n) ==
    IF n < 10 THEN <<DigitChars[n + 1]>>
    ELSE NatToText(n \div 10) \o <<DigitChars[(n % 10) + 1]>>

RECURSIVE ZeroPad(_, _)
\* t with zeros in front, up to the length n
ZeroPad(t, n) == IF Len(t) >= n THEN t ELSE ZeroPad(<<"0">> \o t, n)

\* the integer nearest to mag / 10^e * 10^d, the larger one on a tie
RoundScaled(mag, e, d) ==
    IF d >= e THEN mag * Pow10(d - e)
    ELSE (mag + (Pow10(e - d) \div 2)) \div Pow10(e - d)

\* the digits toFixed writes for the natural number n of 10^-d units
FixedDigits(n, d) ==
    IF d = 0 THEN NatToText(n)
    ELSE NatToText(n \div Pow10(d)) \o <<".">> \o ZeroPad(NatToText(n % Pow10(d)), d)

\* Number.prototype.toFixed(d) of a number that is not NaN: a negative x
\* gives "-" followed by the digits of -x (the rounding is that of the exact
\* decimal value)
ToFixed(x, d) ==
    IF x.m < 0 THEN <<"-">> \o FixedDigits(RoundScaled(-x.m, x.e, d), d)
    ELSE FixedDigits(RoundScaled(x.m, x.e, d), d)

\* x / 10^k
DivPow10(x, k) == Dec(x.m, x.e + k)

Million == Num(1000000)
Thousand == Num(1000)

\* Calculator.formatCurrency, lines 85-93
CalcFormatCurrency(value) ==
    IF NumGe(value, Million) THEN <<"€">> \o ToFixed(DivPow10(value, 6), 2) \o <<"M">>
    ELSE IF NumGe(value, Thousand) THEN <<"€">> \o ToFixed(DivPow10(value, 3), 1) \o <<"K">>
    ELSE <<"€">> \o ToFixed(value, 0)

\* Home.formatCurrency, lines 439-444, of a cell of the row
HomeFormatCurrency(value) ==
    IF ~Truthy(value) THEN <<"-">>
    ELSE IF IsNaN(ParseFloat(value)) THEN value
    ELSE <<"€">> \o ToFixed(DivPow10(ParseFloat(value), 6), 2) \o <<"M">>

\* Managers.formatCurrency, lines 727-738, once value is a number
MgrFormatNumber(num) ==
    IF IsNaN(num) THEN <<"N", "/", "A">>
    ELSE IF NumGe(num, Million) THEN <<"€">> \o ToFixed(DivPow10(num, 6), 2) \o <<"M">>
    ELSE IF NumGe(num, Thousand) THEN <<"€">> \o ToFixed(DivPow10(num, 3), 1) \o <<"K">>
    ELSE <<"€">> \o ToFixed(num, 0)

\* Managers.formatCurrency of a cell of the row (typeof value === 'string')
MgrFormatCurrency(value) == MgrFormatNumber(ParseFloat(value))

(***************************************************************************)
(* Managers (liquidity table).                                             *)
(***************************************************************************)
\* lines 688-692
possibleFiles ==
    << "manager_liquidity.csv", "manager_liquidity_7087364.csv", "manager_liquidity_1.csv" >>

\* line 719 and line 709
NotFoundMessage ==
    "Manager liquidity CSV file not found. Please run the calculate_manager_liquidity.py script first."
ParseErrorMessage == "Error parsing CSV file"

\* the clickable headers, lines 815-868
MgrSortColumns ==
    { "manager_name", "team_value_dashboard", "profit_taken", "unrealized_profit_loss",
      "bank_balance", "available_liquidity" }

\* rows of the liquidity CSV (Papa.parse without dynamicTyping yields text)
SampleManagers ==
    { [manager_id |-> <<"1">>, manager_name |-> <<"a", "b">>,
       team_value_dashboard |-> <<"1", "0", "0", ".", "0", "0">>,
       team_value_calculated |-> <<"1", "0", "0", ".", "0", "2">>,
       profit_taken |-> <<"0">>, unrealized_profit_loss |-> <<"-", "5">>,
       bank_balance |-> <<"1", "5", "0", "0">>, available_liquidity |-> <<"5", "0", "0">>],
      [manager_id |-> <<"2">>, manager_name |-> <<"A", "a">>,
       team_value_dashboard |-> <<"1", "0", "0", ".", "0", "0">>,
       team_value_calculated |-> <<"1", "0", "0", ".", "0", "1">>,
       profit_taken |-> <<"0">>, unrealized_profit_loss |-> <<"0">>,
       bank_balance |-> <<"-", "5">>, available_liquidity |-> Undefined],
      [manager_id |-> Undefined, manager_name |-> <<"B">>,
       team_value_dashboard |-> <<"a", "b">>,
       team_value_calculated |-> Undefined,
       profit_taken |-> <<"a", "b">>, unrealized_profit_loss |-> <<"0">>,
       bank_balance |-> <<"a", "b">>,
       available_liquidity |-> <<"1", "0", "0", "0", "0", "0", "0">>],
      [manager_id |-> <<"4">>, manager_name |-> <<"a">>,
       team_value_dashboard |-> <<"0", ".", "0", "2">>,
       team_value_calculated |-> <<>>,
       profit_taken |-> <<"1", "5", "0", "0">>, unrealized_profit_loss |-> <<".", "5">>,
       bank_balance |-> <<"1", "0", "0", "0">>, available_liquidity |-> <<"0", ".", "5">>] }

ManagerFiles == SeqsUpTo(SampleManagers, MaxManagers)

NoClick == [field |-> Null, tick |-> 0]

MgrInit ==
    /\ managers = <<>>
    /\ mgrLoading = TRUE
    /\ error = Null
    /\ mgrSortField = "manager_name"
    /\ mgrSortDirection = "asc"
    /\ mgrPc = "fetch"
    /\ mgrIdx = 1
    /\ mgrActive = TRUE
    /\ fetchLog = <<>>
    /\ mgrSource = 0
    /\ mgrClick = NoClick

\* how the fetch of the candidate the loop is at ended; body tells what became
\* of the body of a successful response
Fetched(result) ==
    Append(fetchLog, [file |-> possibleFiles[mgrIdx], result |-> result,
                      body |-> IF result = "ok" THEN "unread" ELSE "none"])
BodyOfLast(b) == [fetchLog EXCEPT ![Len(fetchLog)].body = b]

\* the loop goes on with the next candidate (an unsuccessful status falls out
\* of the if of line 698, an exception is caught at line 715); after the last
\* candidate lines 719-720 run
NextCandidate ==
    IF mgrIdx < Len(possibleFiles)
    THEN /\ mgrIdx' = mgrIdx + 1
         /\ mgrPc' = "fetch"
         /\ UNCHANGED <<error, mgrLoading>>
    ELSE /\ mgrPc' = "notfound"
         /\ error' = NotFoundMessage
         /\ mgrLoading' = FALSE
         /\ UNCHANGED mgrIdx

\* await fetch(`/${filename}`) resolves with response.ok: lines 697-699
MgrFetchOk ==
    /\ mgrPc = "fetch"
    /\ mgrPc' = "text"
    /\ fetchLog' = Fetched("ok")
    /\ UNCHANGED <<managers, mgrLoading, error, mgrSortField, mgrSortDirection, mgrIdx,
                   mgrActive, mgrSource, mgrClick>>
    /\ UNCHANGED <<homeVars, calcVars>>

\* a variant of MgrFetchNotOk that reads the body whatever the status
MgrFetchNotOkReadsBody ==
    /\ mgrPc = "fetch"
    /\ mgrPc' = "text"
    /\ fetchLog' = Fetched("notok")
    /\ UNCHANGED <<managers, mgrLoading, error, mgrSortField, mgrSortDirection, mgrIdx,
                   mgrActive, mgrSource, mgrClick>>
    /\ UNCHANGED <<homeVars, calcVars>>

\* the fetch resolves with a non-success status: the if of line 698 is skipped
MgrFetchNotOk ==
    /\ mgrPc = "fetch"
    /\ fetchLog' = Fetched("notok")
    /\ NextCandidate
    /\ UNCHANGED <<managers, mgrSortField, mgrSortDirection, mgrActive, mgrSource, mgrClick>>
    /\ UNCHANGED <<homeVars, calcVars>>

\* the fetch rejects: catch and continue, lines 715-717
MgrFetchThrows ==
    /\ mgrPc = "fetch"
    /\ fetchLog' = Fetched("throws")
    /\ NextCandidate
    /\ UNCHANGED <<managers, mgrSortField, mgrSortDirection, mgrActive, mgrSource, mgrClick>>
    /\ UNCHANGED <<homeVars, calcVars>>

\* await response.text() rejects or Papa.parse throws, inside the same try:
\* catch and continue, lines 715-717
MgrTextReject ==
    /\ mgrPc = "text"
    /\ fetchLog' = BodyOfLast("threw")
    /\ NextCandidate
    /\ UNCHANGED <<managers, mgrSortField, mgrSortDirection, mgrActive, mgrSource, mgrClick>>
    /\ UNCHANGED <<homeVars, calcVars>>

\* Papa.parse calls complete with the rows, then line 714 returns: lines 703-707
MgrParseComplete(data) ==
    /\ mgrPc = "text"
    /\ mgrPc' = "complete"
    /\ managers' = data
    /\ mgrLoading' = FALSE
    /\ error' = Null
    /\ mgrSource' = mgrIdx
    /\ fetchLog' = BodyOfLast("parsed")
    /\ UNCHANGED <<mgrSortField, mgrSortDirection, mgrIdx, mgrActive, mgrClick>>
    /\ UNCHANGED <<homeVars, calcVars>>

\* Papa.parse calls error, then line 714 returns: lines 708-712
MgrParseError ==
    /\ mgrPc = "text"
    /\ mgrPc' = "error"
    /\ error' = ParseErrorMessage
    /\ mgrLoading' = FALSE
    /\ fetchLog' = BodyOfLast("parsed")
    /\ UNCHANGED <<managers, mgrSortField, mgrSortDirection, mgrIdx, mgrActive,
                   mgrSource, mgrClick>>
    /\ UNCHANGED <<homeVars, calcVars>>

\* lines 776-812: what the Managers view renders
MgrView ==
    IF mgrLoading THEN "loading"
    ELSE IF error # Null THEN "error"
    ELSE IF Len(managers) = 0 THEN "empty"
    ELSE "table"

\* a variant of MgrNextSort with the unsorted third state of the player table
MgrNextSortThreeState(sf, sd, field) ==
    IF sf = field
    THEN IF sd = "asc" THEN [sortField |-> sf, sortDirection |-> "desc"]
         ELSE IF sd = "desc" THEN [sortField |-> sf, sortDirection |-> Null]
         ELSE [sortField |-> sf, sortDirection |-> "asc"]
    ELSE [sortField |-> field, sortDirection |-> "asc"]

\* lines 746-753: the sort state a click on the header of field leaves
MgrNextSort(sf, sd, field) ==
    IF sf = field
    THEN [sortField |-> sf, sortDirection |-> IF sd = "asc" THEN "desc" ELSE "asc"]
    ELSE [sortField |-> field, sortDirection |-> "asc"]

\* parseFloat(v) || 0: NaN and 0 are falsy
ParsedOrZero(v) ==
    IF IsNaN(ParseFloat(v)) \/ ParseFloat(v).m = 0 THEN Zero ELSE ParseFloat(v)

\* the comparator of lines 755-768; only the sign of the result matters
MgrCompare(a, b, field, dir) ==
    IF field = "manager_name"
    THEN IF dir = "asc"
         THEN LocaleCompare(OrElse(a[field], <<>>), OrElse(b[field], <<>>))
         ELSE LocaleCompare(OrElse(b[field], <<>>), OrElse(a[field], <<>>))
    ELSE IF dir = "asc"
         THEN Sign(NumSub(ParsedOrZero(a[field]), ParsedOrZero(b[field])))
         ELSE Sign(NumSub(ParsedOrZero(b[field]), ParsedOrZero(a[field])))

\* x goes behind every row that does not compare greater than it (the sort is
\* stable, and this comparator is a consistent one)
MgrInsertSorted(acc, x, field, dir) ==
    LET keep == {i \in 1..Len(acc) : MgrCompare(acc[i], x, field, dir) <= 0}
        k == IF keep = {} THEN 0 ELSE CHOOSE i \in keep : \A j \in keep : j <= i
    IN  SubSeq(acc, 1, k) \o <<x>> \o SubSeq(acc, k + 1, Len(acc))

RECURSIVE MgrStableSort(_, _, _)
MgrStableSort(ms, field, dir) ==
    IF Len(ms) = 0 THEN <<>>
    ELSE MgrInsertSorted(MgrStableSort(SubSeq(ms, 1, Len(ms) - 1), field, dir),
                         ms[Len(ms)], field, dir)

\* the sorted copy of every file in every sort state, computed once
MgrSortMemo ==
    [ms \in ManagerFiles |->
        [f \in MgrSortColumns |-> [d \in {"asc", "desc"} |-> MgrStableSort(ms, f, d)]]]

\* lines 755-768: [...managers].sort(...)
SortedManagers == MgrSortMemo[managers][mgrSortField][mgrSortDirection]

\* a header click that sorts the stored rows themselves: managers.sort(...)
\* on the state array instead of on a copy of it
MgrHandleSortInPlace(field) ==
    /\ mgrActive /\ MgrView = "table"
    /\ mgrSortField' = MgrNextSort(mgrSortField, mgrSortDirection, field).sortField
    /\ mgrSortDirection' = MgrNextSort(mgrSortField, mgrSortDirection, field).sortDirection
    /\ mgrClick' = [field |-> field, tick |-> 1 - mgrClick.tick]
    /\ managers' = MgrSortMemo[managers][mgrSortField'][mgrSortDirection']
    /\ UNCHANGED <<mgrLoading, error, mgrPc, mgrIdx, mgrActive, fetchLog, mgrSource>>
    /\ UNCHANGED <<homeVars, calcVars>>

\* lines 746-753 (the headers exist in the table only, lines 806-868)
MgrHandleSort(field) ==
    /\ mgrActive /\ MgrView = "table"
    /\ mgrSortField' = MgrNextSort(mgrSortField, mgrSortDirection, field).sortField
    /\ mgrSortDirection' = MgrNextSort(mgrSortField, mgrSortDirection, field).sortDirection
    /\ mgrClick' = [field |-> field, tick |-> 1 - mgrClick.tick]
    /\ UNCHANGED <<managers, mgrLoading, error, mgrPc, mgrIdx, mgrActive, fetchLog, mgrSource>>
    /\ UNCHANGED <<homeVars, calcVars>>

\* the view is unmounted; the effect of lines 684-725 returns no cleanup
\* function and loadManagers runs on
MgrTeardown ==
    /\ mgrActive
    /\ mgrActive' = FALSE
    /\ UNCHANGED <<managers, mgrLoading, error, mgrSortField, mgrSortDirection, mgrPc, mgrIdx,
                   fetchLog, mgrSource, mgrClick>>
    /\ UNCHANGED <<homeVars, calcVars>>

\* lines 770-774
GetDiscrepancy(dashboard, calculated) ==
    NumAbs(NumSub(ParsedOrZero(dashboard), ParsedOrZero(calculated)))

DiscrepancyLimit == Dec(1, 2)   \* line 878: 0.01

\* a variant of HasDiscrepancy that flags the limit itself
HasDiscrepancyAtLimit(manager) ==
    NumLe(DiscrepancyLimit,
          GetDiscrepancy(manager.team_value_dashboard, manager.team_value_calculated))

\* lines 874-878
HasDiscrepancy(manager) ==
    NumLt(DiscrepancyLimit,
          GetDiscrepancy(manager.team_value_dashboard, manager.team_value_calculated))

NoCell == <<"(not rendered)">>
CalcLabel == <<"⚠", " ", "C", "a", "l", "c", ":", " ">>

\* lines 880-922: the cells of one row of the table
RowView(manager) ==
    [ manager_name |-> manager.manager_name,
      manager_id |-> manager.manager_id,
      team_value |-> MgrFormatCurrency(manager.team_value_dashboard),
      calc |-> IF HasDiscrepancy(manager)
               THEN CalcLabel \o MgrFormatCurrency(manager.team_value_calculated)
               ELSE NoCell,
      profit_taken |-> MgrFormatCurrency(manager.profit_taken),
      unrealized_profit_loss |-> MgrFormatCurrency(manager.unrealized_profit_loss),
      bank_balance |-> MgrFormatCurrency(manager.bank_balance),
      available_liquidity |-> MgrFormatCurrency(manager.available_liquidity) ]

\* lines 872-925: the rows of the table, rendered when the view shows it
TableRows ==
    IF MgrView = "table"
    THEN [i \in 1..Len(SortedManagers) |-> RowView(SortedManagers[i])]
    ELSE <<>>

RECURSIVE FieldSumUnguarded(_, _)
\* a variant of FieldSum without the || 0 of the callback
FieldSumUnguarded(ms, f) ==
    IF Len(ms) = 0 THEN Zero
    ELSE NumAdd(FieldSumUnguarded(SubSeq(ms, 1, Len(ms) - 1), f), ParseFloat(ms[Len(ms)][f]))

RECURSIVE FieldSum(_, _)
\* ms.reduce((sum, m) => sum + (parseFloat(m[f]) || 0), 0), lines 942, 950, 958
FieldSum(ms, f) ==
    IF Len(ms) = 0 THEN Zero
    ELSE NumAdd(FieldSum(SubSeq(ms, 1, Len(ms) - 1), f), ParsedOrZero(ms[Len(ms)][f]))

\* x / n, kept as the pair (the quotient need not be a finite decimal)
Quotient(x, n) == [num |-> x, den |-> n]

NoPanel == [shown |-> FALSE]

\* lines 930-963: the values of the summary statistics, rendered below the
\* table when managers.length > 0
SummaryPanel ==
    IF MgrView = "table"
    THEN [ shown |-> TRUE,
           totalManagers |-> Len(managers),
           avgBankBalance |-> Quotient(FieldSum(managers, "bank_balance"), Len(managers)),
           avgAvailableLiquidity |->
               Quotient(FieldSum(managers, "available_liquidity"), Len(managers)),
           totalTeamValue |-> FieldSum(managers, "team_value_dashboard") ]
    ELSE NoPanel

(***************************************************************************)
(* Specifications: one per view, each view being activated on its own.     *)
(***************************************************************************)
Init == HomeInit /\ CalcInit /\ MgrInit

Next ==
    \/ \E ok \in BOOLEAN : HomeFetchResolve(ok)
    \/ HomeFetchReject
    \/ HomeTextReject
    \/ \E data \in PlayerFiles : HomeParseComplete(data)
    \/ HomeParseError
    \/ \E value \in SearchInputs : SetSearchTerm(value)
    \/ \E value \in PositionButtons : SetPositionFilter(value)
    \/ \E k \in 0..MaxSliderSteps : SetMinMarketValue(k * SLIDER_STEP)
    \/ \E field \in SortColumns : HandleSort(field)

Spec == Init /\ [][Next]_vars

NextCalc ==
    \/ \E data \in MetricsFiles : CalcFetchOk(data)
    \/ CalcFetchNotOk
    \/ CalcFetchReject
    \/ CalcTextReject
    \/ CalcParseComplete
    \/ CalcParseError
    \/ \E value \in PointsInputs : HandlePointsChange(value)
    \/ CalcTeardown

SpecCalc == Init /\ [][NextCalc]_vars

NextMgr ==
    \/ MgrFetchOk
    \/ MgrFetchNotOk
    \/ MgrFetchThrows
    \/ MgrTextReject
    \/ \E data \in ManagerFiles : MgrParseComplete(data)
    \/ MgrParseError
    \/ \E field \in MgrSortColumns : MgrHandleSort(field)
    \/ MgrTeardown

SpecMgr == Init /\ [][NextMgr]_vars

\* one of the three routes is visited: a view takes steps as long as the other
\* two have not been activated
HomeIdle == homePc = "fetch" /\ homeActive
CalcIdle == calcPc = "fetch" /\ calcActive
MgrIdle == mgrPc = "fetch" /\ mgrIdx = 1 /\ mgrActive

NextApp ==
    \/ CalcIdle /\ MgrIdle /\ (Next \/ HomeTeardown)
    \/ HomeIdle /\ MgrIdle /\ NextCalc
    \/ HomeIdle /\ CalcIdle /\ NextMgr

SpecApp == Init /\ [][NextApp]_vars

(***************************************************************************)
(* Properties of the player table.                                         *)
(***************************************************************************)
Displayed == filteredAndSortedPlayers

\* the text of a cell, '' for a key the row lacks
TextOf(v) == IF IsAbsent(v) THEN <<>> ELSE v

\* how often row r occurs in the sequence rows
CountIn(rows, r) == Cardinality({i \in 1..Len(rows) : rows[i] = r})

\* the lower-cased term occurs in the lower-cased cell
TermInCell(v, term) == ~IsAbsent(v) /\ Includes(ToLowerCase(v), ToLowerCase(term))
TermInRow(r, term) ==
    TermInCell(r.fn, term) \/ TermInCell(r.ln, term) \/ TermInCell(r.tn, term) \/ TermInCell(r.pos, term)

\* the number read from the mv cell, 0 for an absent cell
MvNumber(r) == IF Truthy(r.mv) THEN ParseFloat(r.mv) ELSE Zero
NegativeMv(r) == NumLt(MvNumber(r), Zero)

\* C1 as stated: with position 'all' and minimum market value 0, the displayed
\* rows are exactly the rows in which the lower-cased search term occurs in
\* the lower-cased fn, ln, tn or pos; with an empty term every row is displayed.
C1_SearchExactSubset ==
    (~loading /\ positionFilter = PosAll /\ minMarketValue = 0) =>
        \A r \in SamplePlayers :
            CountIn(Displayed, r) =
                IF searchTerm = <<>> \/ TermInRow(r, searchTerm) THEN CountIn(players, r) ELSE 0

\* C1 amended: the same, among the rows whose mv is not a negative number (a
\* row with a negative mv fails the market value predicate at threshold 0).
C1_SearchExactAmongNonNegative ==
    (~loading /\ positionFilter = PosAll /\ minMarketValue = 0) =>
        \A r \in SamplePlayers :
            CountIn(Displayed, r) =
                IF ~NegativeMv(r) /\ (searchTerm = <<>> \/ TermInRow(r, searchTerm))
                THEN CountIn(players, r) ELSE 0

C1_Witness ==
    /\ ~loading /\ positionFilter = PosAll /\ minMarketValue = 0
    /\ searchTerm = <<"B">>
    /\ Len(players) = 2 /\ Len(Displayed) = 1
    /\ \E i \in 1..2 : ~NegativeMv(players[i]) /\ ~TermInRow(players[i], searchTerm)

\* C2: with a position filter other than 'all', every displayed row has a pos
\* cell whose trimmed text is the filter value, and every row with that
\* trimmed pos that passes the search and market value predicates is
\* displayed; with 'all' every row passing those two predicates is displayed.
C2_PositionFilter ==
    ~loading =>
        /\ positionFilter # PosAll =>
              \A i \in 1..Len(Displayed) : Trim(TextOf(Displayed[i].pos)) = positionFilter
        /\ \A r \in SamplePlayers :
              ( /\ positionFilter # PosAll => Trim(TextOf(r.pos)) = positionFilter
                /\ MatchesSearch(r, searchTerm)
                /\ MarketValueOk(r, minMarketValue) )
              => CountIn(Displayed, r) = CountIn(players, r)

C2_Witness ==
    /\ ~loading /\ positionFilter = <<"1">>
    /\ Len(Displayed) = 2
    /\ Displayed[1].pos = <<"1">>
    /\ Displayed[2].pos = <<" ", "1", " ">>

\* the market value the claim gives a row: the parsed mv, 0 when the cell is
\* absent, and the neutral default 0 when it does not parse
MvOrDefault(r) == IF IsNaN(MvNumber(r)) THEN Zero ELSE MvNumber(r)

\* C3 as stated: a row passes the market value predicate iff its market value
\* (0 when absent or unparseable) is >= the threshold, so above threshold 0
\* no row without a numeric mv is displayed.
C3_MinMarketValue ==
    ~loading =>
        /\ \A r \in SamplePlayers :
              (CountIn(players, r) > 0 /\ MatchesSearch(r, searchTerm)
                  /\ PositionMatches(r, positionFilter))
              => (CountIn(Displayed, r) > 0 <=> NumGe(MvOrDefault(r), Num(minMarketValue)))
        /\ minMarketValue > 0 =>
              \A i \in 1..Len(Displayed) : ~IsNaN(MvNumber(Displayed[i]))

\* C4: from the unsorted state, successive clicks on one header give ascending,
\* then descending, then unsorted, and after the third click the displayed
\* rows are the filtered rows in ingestion order.
C4_SortCycle ==
    clickRun.fromUnsorted =>
        /\ clickRun.n = 1 => (sortField = clickRun.field /\ sortDirection = "asc")
        /\ clickRun.n = 2 => (sortField = clickRun.field /\ sortDirection = "desc")
        /\ clickRun.n = 3 =>
              /\ sortField = Null /\ sortDirection = Null
              /\ Displayed = FilterPlayers(players, searchTerm, positionFilter, minMarketValue)
        /\ clickRun.n <= 3

C4_Witness ==
    /\ clickRun.fromUnsorted /\ clickRun.n = 3 /\ clickRun.field = "tp"
    /\ Len(Displayed) = 3
    /\ Displayed # StableSort(Displayed, "tp", "asc")
    /\ Displayed # StableSort(Displayed, "tp", "desc")

\* C5: a click on the header of a column other than the active sort column
\* leaves sort key = that column and direction = ascending, whatever the
\* key and direction were.  (clickRun changes exactly on a header click, and
\* its field is then the clicked column.)
C5_OtherColumnAscending ==
    [][(clickRun' # clickRun /\ clickRun'.field # sortField)
          => (sortField' = clickRun'.field /\ sortDirection' = "asc")]_vars

C5_Witness ==
    /\ clickRun.n = 1 /\ ~clickRun.fromUnsorted
    /\ sortField = clickRun.field /\ sortDirection = "asc"

\* C6: the displayed rows are a permutation of exactly the source rows that
\* satisfy the search, position and market value predicates together.
C6_PermutationOfFiltered ==
    /\ \A r \in SamplePlayers :
          CountIn(Displayed, r) =
              IF /\ MatchesSearch(r, searchTerm)
                 /\ PositionMatches(r, positionFilter)
                 /\ MarketValueOk(r, minMarketValue)
              THEN CountIn(players, r) ELSE 0
    /\ \A i \in 1..Len(Displayed) : Displayed[i] \in SamplePlayers

C6_Witness ==
    /\ sortField = "tp" /\ sortDirection = "asc"
    /\ searchTerm = <<"B">> /\ positionFilter = PosAll /\ minMarketValue = 0
    /\ Len(players) = 3 /\ Len(Displayed) = 2
    /\ Displayed # FilterPlayers(players, searchTerm, positionFilter, minMarketValue)

\* the comparison rule of the claim: may a cell stand before b cell
IsNumeric(v) == ~IsNaN(ParseFloat(TextOf(v)))
MayPrecede(a, b, dir) ==
    IF IsNumeric(a) /\ IsNumeric(b)
    THEN IF dir = "asc" THEN NumLe(ParseFloat(TextOf(a)), ParseFloat(TextOf(b)))
         ELSE NumGe(ParseFloat(TextOf(a)), ParseFloat(TextOf(b)))
    ELSE IF dir = "asc" THEN LocaleCompare(TextOf(a), TextOf(b)) <= 0
         ELSE LocaleCompare(TextOf(a), TextOf(b)) >= 0

\* C7: the comparator orders two rows by number when both cells of the sort
\* column parse as numbers and by string comparison otherwise; a displayed
\* column of numeric text only is in non-decreasing numeric order when
\* ascending and non-increasing when descending (and a column without any
\* numeric text is in string order).
C7_ComparisonRule ==
    (sortField # Null /\ sortDirection # Null) =>
        /\ \A i, j \in 1..Len(players) :
              (CompareHome(players[i], players[j], sortField, sortDirection) <= 0)
                  <=> MayPrecede(players[i][sortField], players[j][sortField], sortDirection)
        /\ ( \/ \A i \in 1..Len(Displayed) : IsNumeric(Displayed[i][sortField])
             \/ \A i \in 1..Len(Displayed) : ~IsNumeric(Displayed[i][sortField]) )
           => \A i, j \in 1..Len(Displayed) :
                 i < j => MayPrecede(Displayed[i][sortField], Displayed[j][sortField], sortDirection)

C7_Witness ==
    /\ sortField = "tp" /\ sortDirection = "asc"
    /\ Len(players) = 2 /\ Len(Displayed) = 2
    /\ players[1].tp = <<"1", "0">> /\ players[2].tp = <<"9">>
    /\ Displayed[1].tp = <<"9">> /\ Displayed[2].tp = <<"1", "0">>

(***************************************************************************)
(* Properties of the calculator.                                           *)
(***************************************************************************)
\* C8: calculateFMV returns exactly A for an input that does not parse as a
\* number and for TP <= TP0, and A + B * (TP - TP0)^alpha for TP > TP0.
C8_FormulaEvaluator ==
    /\ totalPoints # <<>> =>
          /\ (IsNaN(ParseFloat(totalPoints)) \/ ~NumLt(TP0, ParseFloat(totalPoints)))
                => fairMarketValue = Plain(A)
          /\ NumLt(TP0, ParseFloat(totalPoints))
                => fairMarketValue = PowTerm(A, B, NumSub(ParseFloat(totalPoints), TP0), alpha)
    /\ \A points \in PointsInputs :
          CalculateFMV(points, B, alpha) =
              IF NumLt(TP0, ParseFloat(points))
              THEN PowTerm(A, B, NumSub(ParseFloat(points), TP0), alpha)
              ELSE Plain(A)

C8_Witness ==
    /\ totalPoints = <<"2", "0", "0">>
    /\ fairMarketValue = Plain(A)
    /\ B # DEFAULT_B /\ alpha # DEFAULT_ALPHA

\* the coefficient the claim expects from a cell of the metrics row
ExpectedCoefficient(cell, default) ==
    IF IsNumeric(cell) THEN ParseFloat(TextOf(cell)) ELSE default

\* C9 as stated: once the view is ready, B is 558 unless the metrics row has
\* a B cell that parses as a number, alpha is 1.445 unless the row has an
\* alpha cell that parses as a number, and neither is ever a non-number.
C9_CoefficientsDefault ==
    ~calcLoading =>
        /\ ~IsNaN(B) /\ ~IsNaN(alpha)
        /\ IF calcPc = "complete" /\ Len(metricsCsv) > 0
           THEN /\ B = ExpectedCoefficient(metricsCsv[1].B, DEFAULT_B)
                /\ alpha = ExpectedCoefficient(metricsCsv[1].alpha, DEFAULT_ALPHA)
           ELSE B = DEFAULT_B /\ alpha = DEFAULT_ALPHA

\* C10: whichever way the metrics fetch resolves or rejects, the view is ready
\* afterwards (there is no error state), and on source-not-found and on parse
\* failure B and alpha have their default values.
C10_AlwaysReady ==
    /\ calcPc \in {"notfound", "rejected", "error", "complete"} => CalcView = "ready"
    /\ calcPc \in {"notfound", "rejected", "error"} => (B = DEFAULT_B /\ alpha = DEFAULT_ALPHA)
    /\ (calcPc = "complete" /\ Len(metricsCsv) = 0) => (B = DEFAULT_B /\ alpha = DEFAULT_ALPHA)
    /\ CalcView \in {"loading", "ready"}

C10_Witness ==
    /\ calcPc = "error" /\ Len(metricsCsv) > 0 /\ IsNumeric(metricsCsv[1].B)
    /\ CalcView = "ready" /\ B = DEFAULT_B

\* the text of a sample of the chart, as typed into the points input
SampleText(tp) == NatToText(tp.m)

\* C19: the chart samples are TP = 200, 250, ..., 4000; for every sample and
\* for the coefficients in use the plotted value is what calculateFMV returns
\* for the same TP; the first sample has the value A.
C19_ChartMatchesEvaluator ==
    LET chart == ChartData(B, alpha)
    IN  /\ Len(chart) = 77
        /\ \A i \in 1..Len(chart) :
               /\ chart[i].tp = Num(200 + 50 * (i - 1))
               /\ chart[i].fmv = CalculateFMV(SampleText(chart[i].tp), B, alpha)
        /\ chart[1].tp = TP0 /\ chart[1].fmv = Plain(A)
        /\ chart[Len(chart)].tp = Num(4000)

\* coefficients loaded from the metrics file, and the points of a sample typed in
C19_Witness ==
    /\ calcPc = "complete" /\ B = Num(600) /\ alpha = Dec(15, 1)
    /\ totalPoints = <<"7", "0", "0">>
    /\ fairMarketValue = ChartData(B, alpha)[11].fmv
    /\ fairMarketValue.kind # "number"

(***************************************************************************)
(* Properties of the ingestion and of the life cycle of the views.         *)
(***************************************************************************)
Last(q) == q[Len(q)]

\* C11: in each of the three views a response with a non-success status is
\* never passed to the CSV parser and never becomes records; the view takes
\* its source-missing branch instead.  Player table: the chain that holds a
\* non-success response goes to the catch, not to a parser callback.
\* Calculator: the step that meets the non-success status parses nothing and
\* ends the chain.  Liquidity table: the step that meets the non-success status
\* moves on without reading the body, and the records never stem from such a
\* candidate.
C11_NotOkNeverParsed ==
    [][ /\ (homeResponse = "notok" /\ homePc' # homePc) => homePc' = "caught"
        /\ (homeResponse = "notok") => players' = players
        /\ (calcPc' = "notfound" /\ calcPc # "notfound")
               => (metricsCsv' = <<>> /\ B' = B /\ alpha' = alpha)
        /\ (calcPc = "notfound") => calcPc' = "notfound"
        /\ (Len(fetchLog') > Len(fetchLog) /\ Last(fetchLog').result = "notok")
               => (mgrPc' \in {"fetch", "notfound"} /\ managers' = managers)
        /\ (mgrSource' # 0) => fetchLog'[mgrSource'].result = "ok"
      ]_vars

\* C12: in the two table views, once the fetch or the CSV parse has failed the
\* view shows an error state of its own (not the display a successful load of
\* zero records gives) and no rows.
C12_FailureShowsError ==
    /\ (homeActive /\ homePc \in {"caught", "error"})
           => (HomeView = "error" /\ players = <<>>)
    /\ (mgrActive /\ mgrPc \in {"notfound", "error"})
           => (MgrView = "error" /\ managers = <<>>)

\* the load of a view is still waiting for a fetch to resolve
HomeFetchPending == homePc = "fetch"
CalcFetchPending == calcPc = "fetch"
MgrFetchPending == mgrPc = "fetch"

\* C13: each view leaves loading at most once: once loading is off no step
\* (a load callback, the search box, a position button, the slider, a header
\* click, the points input) turns it on again; and as long as the fetch has
\* not resolved the view is loading.
C13_LoadingLeftOnce ==
    /\ [](/\ HomeFetchPending => loading
          /\ CalcFetchPending => calcLoading
          /\ MgrFetchPending => mgrLoading)
    /\ [][ /\ ~loading => ~loading'
           /\ ~calcLoading => ~calcLoading'
           /\ ~mgrLoading => ~mgrLoading' ]_vars

\* the player table is ready and every control has been used
C13_Witness ==
    /\ homePc = "complete" /\ ~loading
    /\ searchTerm # <<>> /\ positionFilter # PosAll /\ minMarketValue > 0
    /\ sortField # Null

\* C18: once a view has been torn down, no state of it (records, loading,
\* error, B, alpha) is updated: a result that arrives later is discarded.
C18_NoUpdateAfterTeardown ==
    [][ /\ ~homeActive => UNCHANGED <<players, loading>>
        /\ ~calcActive => UNCHANGED <<B, alpha, calcLoading>>
        /\ ~mgrActive => UNCHANGED <<managers, mgrLoading, error>>
      ]_vars

(***************************************************************************)
(* Properties of the liquidity table.                                      *)
(***************************************************************************)
\* the candidates are requested in the order of the list, one at a time: the
\* log is a prefix of the list and a pending request is for the next of it
FetchedInOrder ==
    /\ Len(fetchLog) <= Len(possibleFiles)
    /\ \A i \in 1..Len(fetchLog) : fetchLog[i].file = possibleFiles[i]
    /\ MgrFetchPending => mgrIdx = Len(fetchLog) + 1

\* candidate i + 1 has been requested
NextRequested(i) == Len(fetchLog) > i \/ (MgrFetchPending /\ mgrIdx = i + 1)

FetchFailed(i) == fetchLog[i].result \in {"notok", "throws"}

\* C14 as stated: the candidates are fetched in the fixed order; the records
\* come from the first candidate whose fetch succeeds, and after a successful
\* fetch no later candidate is fetched; a candidate whose fetch throws or has
\* a non-success status is skipped; if every candidate fails the view is in
\* the error state with the message naming the generation script.
C14_FirstSuccessWins ==
    /\ FetchedInOrder
    /\ \A i \in 1..Len(fetchLog) :
           /\ fetchLog[i].result = "ok" => ~NextRequested(i)
           /\ FetchFailed(i) => (mgrSource # i /\ (i < Len(possibleFiles) => NextRequested(i)))
    /\ mgrSource # 0 =>
           /\ fetchLog[mgrSource].result = "ok"
           /\ \A j \in 1..(mgrSource - 1) : FetchFailed(j)
    /\ (Len(fetchLog) = Len(possibleFiles) /\ \A i \in 1..Len(fetchLog) : FetchFailed(i))
           => (MgrView = "error" /\ error = NotFoundMessage)

\* the candidate is passed over: its fetch failed, or its body could not be
\* read and parsed
Skipped(i) == FetchFailed(i) \/ fetchLog[i].body = "threw"

\* C14, amended: the candidates are fetched in the fixed order; the records
\* come from the first candidate whose fetch succeeds and whose body is read
\* and parsed without an exception, and no later candidate is fetched once a
\* body has reached the parser's callbacks; a candidate whose fetch throws or
\* has a non-success status, or whose body cannot be read, is skipped; if
\* every candidate is skipped the view is in the error state with the message
\* naming the generation script.
C14_FirstReadableWins ==
    /\ FetchedInOrder
    /\ \A i \in 1..Len(fetchLog) :
           /\ fetchLog[i].body \in {"unread", "parsed"} => ~NextRequested(i)
           /\ Skipped(i) => (mgrSource # i /\ (i < Len(possibleFiles) => NextRequested(i)))
    /\ mgrSource # 0 =>
           /\ fetchLog[mgrSource].result = "ok" /\ fetchLog[mgrSource].body = "parsed"
           /\ \A j \in 1..(mgrSource - 1) : Skipped(j)
    /\ (Len(fetchLog) = Len(possibleFiles) /\ \A i \in 1..Len(fetchLog) : Skipped(i))
           => (MgrView = "error" /\ error = NotFoundMessage)

\* the body of the first candidate could not be read, the second candidate
\* was not found, the records come from the third
C14_Witness ==
    /\ Len(fetchLog) = 3
    /\ fetchLog[1].body = "threw" /\ fetchLog[2].result = "notok"
    /\ mgrSource = 3 /\ Len(managers) > 0

Flip(d) == IF d = "asc" THEN "desc" ELSE "asc"

\* C15: the sort state of the liquidity table starts at (manager_name,
\* ascending); the direction is always ascending or descending; a click on
\* the active column flips the direction, a click on another column makes it
\* the sort column with direction ascending.
C15_TwoStateSort ==
    /\ [](/\ mgrSortDirection \in {"asc", "desc"}
          /\ mgrSortField \in MgrSortColumns
          /\ mgrClick = NoClick => (mgrSortField = "manager_name" /\ mgrSortDirection = "asc"))
    /\ [][ mgrClick' # mgrClick =>
             IF mgrClick'.field = mgrSortField
             THEN mgrSortField' = mgrSortField /\ mgrSortDirection' = Flip(mgrSortDirection)
             ELSE mgrSortField' = mgrClick'.field /\ mgrSortDirection' = "asc" ]_vars

\* the header of the bank balance has been clicked a second time
C15_Witness ==
    /\ mgrClick = [field |-> "bank_balance", tick |-> 0]
    /\ mgrSortField = "bank_balance" /\ mgrSortDirection = "desc"
    /\ \E i \in 1..Len(managers) : managers[i].bank_balance # Undefined

\* the number a cell counts as: 0 when it is absent or does not parse
CellValue(v) == IF IsNumeric(v) THEN ParseFloat(v) ELSE Zero

\* the two team values of the row are more than 0.01 apart
FarApart(m) ==
    \/ NumLt(NumAdd(CellValue(m.team_value_calculated), Dec(1, 2)),
             CellValue(m.team_value_dashboard))
    \/ NumLt(NumAdd(CellValue(m.team_value_dashboard), Dec(1, 2)),
             CellValue(m.team_value_calculated))

RECURSIVE TotalOf(_, _)
\* the sum of column f over the rows, a cell that is no number counting as 0
TotalOf(rows, f) ==
    IF Len(rows) = 0 THEN Zero ELSE NumAdd(CellValue(Head(rows)[f]), TotalOf(Tail(rows), f))

\* C17: for a non-empty manager set the panel shows the record count, the
\* mean bank balance, the mean available liquidity and the sum of the
\* dashboard team values, over all records, a value that is no number
\* counting as 0, whatever the sort state is (the rows in the order they are
\* displayed in give the values of the panel); for an empty set no panel is
\* rendered, so nothing is divided by zero.
C17_Aggregates ==
    /\ Len(managers) = 0 => SummaryPanel = NoPanel
    /\ (mgrPc = "complete" /\ Len(managers) > 0) => SummaryPanel # NoPanel
    /\ SummaryPanel # NoPanel =>
           /\ Len(managers) > 0
           /\ SummaryPanel.totalManagers = Len(managers)
           /\ SummaryPanel.avgBankBalance =
                  Quotient(TotalOf(SortedManagers, "bank_balance"), Len(SortedManagers))
           /\ SummaryPanel.avgAvailableLiquidity =
                  Quotient(TotalOf(SortedManagers, "available_liquidity"), Len(SortedManagers))
           /\ SummaryPanel.totalTeamValue = TotalOf(SortedManagers, "team_value_dashboard")

\* two managers, one of them with a bank balance that is no number, shown in
\* descending order of the bank balance
C17_Witness ==
    /\ SummaryPanel # NoPanel
    /\ SummaryPanel.totalManagers = 2
    /\ \E i \in 1..2 : managers[i].bank_balance = <<"a", "b">>
    /\ \E i \in 1..2 : managers[i].bank_balance = <<"1", "5", "0", "0">>
    /\ SummaryPanel.avgBankBalance = Quotient(Num(1500), 2)
    /\ mgrSortField = "bank_balance" /\ mgrSortDirection = "desc"
    /\ SortedManagers # managers

(***************************************************************************)
(* Properties of the formatting.                                           *)
(***************************************************************************)
\* the suffix a monetary value must carry
ExpectedUnit(x) ==
    IF NumGe(x, Num(1000000)) THEN "M"
    ELSE IF NumGe(x, Num(1000)) THEN "K"
    ELSE "plain"

\* the suffix a rendered text carries; plain is a currency sign followed by an
\* integer with no suffix
MoneyUnit(t) ==
    IF Last(t) = "M" THEN "M"
    ELSE IF Last(t) = "K" THEN "K"
    ELSE IF \A i \in 2..Len(t) : IsDigit(t[i]) \/ (i = 2 /\ t[i] = "-") THEN "plain"
    ELSE "other"

\* the value of the claim's examples
MoneyExamples == {1000000, 1500, 500}

MgrMoneyColumns ==
    {"team_value_dashboard", "team_value_calculated", "profit_taken",
     "unrealized_profit_loss", "bank_balance", "available_liquidity"}

CalcMoneyOk(x) == MoneyUnit(CalcFormatCurrency(x)) = ExpectedUnit(x)
HomeMoneyOk(cell) ==
    IsNumeric(cell) => MoneyUnit(HomeFormatCurrency(cell)) = ExpectedUnit(ParseFloat(cell))
MgrMoneyOk(cell) ==
    IsNumeric(cell) => MoneyUnit(MgrFormatCurrency(cell)) = ExpectedUnit(ParseFloat(cell))

\* the monetary values the Calculator renders are formatted as claimed
C20_CalcFormat ==
    (calcActive /\ ~calcLoading) =>
        /\ CalcMoneyOk(A)
        /\ fairMarketValue.kind = "number" => CalcMoneyOk(fairMarketValue.base)
        /\ \A v \in MoneyExamples : CalcMoneyOk(Num(v))

\* the monetary cells of the liquidity table are formatted as claimed
C20_MgrFormat ==
    (mgrActive /\ MgrView = "table") =>
        /\ \A i \in 1..Len(managers) : \A f \in MgrMoneyColumns : MgrMoneyOk(managers[i][f])
        /\ \A v \in MoneyExamples : MgrMoneyOk(NatToText(v))

\* the market values of the player table are formatted as claimed
C20_HomeFormat ==
    (homeActive /\ ~loading) =>
        /\ \A i \in 1..Len(Displayed) : HomeMoneyOk(Displayed[i].mv)
        /\ \A v \in MoneyExamples : HomeMoneyOk(NatToText(v))

\* C20: in every view that renders a monetary value, a value >= 1,000,000 is
\* rendered in millions with suffix M, a value >= 1,000 and below 1,000,000 in
\* thousands with suffix K, and a smaller value as a plain integer without a
\* suffix (1,000,000 gives M, 1,500 gives K, 500 gives the plain integer).
C20_MoneyFormat == C20_CalcFormat /\ C20_MgrFormat /\ C20_HomeFormat

(***************************************************************************)
(* Properties of the stored records.                                       *)
(***************************************************************************)
\* C21: in the player view and in the liquidity view, every filter change
\* and every sort operation leaves the stored record sequence (its contents
\* and its ingestion order) unchanged: a step that is not a step of the load
\* (the position of the load stays where it was) changes neither players nor
\* managers, and what is displayed is computed from the stored rows.
C21_NoMutation ==
    [][ /\ homePc' = homePc => players' = players
        /\ mgrPc' = mgrPc => managers' = managers ]_vars

C21_Witness ==
    /\ homeActive /\ homePc = "complete"
    /\ sortField # Null /\ sortDirection = "desc"
    /\ Len(players) = 3 /\ Len(Displayed) = 2
    /\ \E i, j \in 1..3 : i < j /\ Displayed[1] = players[j] /\ Displayed[2] = players[i]

\* C22: after any sequence of header clicks the sort key of the player view
\* is null if and only if the sort direction is null; no state has a column
\* selected with no direction, so the guard of the third branch of handleSort
\* (same column, neither "asc" nor "desc") holds for no column in any state.
C22_SortStateInvariant ==
    /\ (sortField = Null) <=> (sortDirection = Null)
    /\ sortDirection \in {Null, "asc", "desc"}
    /\ \A field \in SortColumns :
          ~(sortField = field /\ sortDirection # "asc" /\ sortDirection # "desc")

C22_Witness ==
    /\ homeActive /\ ~loading
    /\ clickRun.n = 3 /\ clickRun.fromUnsorted /\ clickRun.field = "tn"
    /\ sortField = Null /\ sortDirection = Null
    /\ Len(players) > 0

\* C23: the value the calculator stores is never stale.  In every reachable
\* state the stored fair market value is null exactly when the points input
\* is empty, and otherwise it is calculateFMV of the current input with the
\* current B and alpha; an input exists only once the view has left loading,
\* and B and alpha change only in a step taken while the view is loading, so
\* they never change after an input has been entered.
C23_NeverStale ==
    /\ [](/\ (fairMarketValue = NullValue) <=> (totalPoints = <<>>)
          /\ totalPoints # <<>> => fairMarketValue = CalculateFMV(totalPoints, B, alpha)
          /\ totalPoints # <<>> => ~calcLoading)
    /\ [][(~calcLoading \/ totalPoints # <<>>) => (B' = B /\ alpha' = alpha)]_vars

C23_Witness ==
    /\ calcPc = "complete" /\ ~calcLoading
    /\ B # DEFAULT_B /\ alpha # DEFAULT_ALPHA
    /\ totalPoints = <<"2", "0", "1">>
    /\ fairMarketValue = PowTerm(A, B, Num(1), alpha)


====
